---- MODULE Spec2Model ----
(***************************************************************************)
(* Patient Management System API (src/main.py).                            *)
(*                                                                         *)
(* The persisted collection patients.json is an insertion-ordered mapping  *)
(* from patient id to record; it is the sequence db of [id, rec] entries.  *)
(* JSON values are tagged: [t |-> "str" | "num" | "null", v |-> ...].      *)
(* Strings are sequences of one-character strings, so that capitalize()    *)
(* is computed and not assumed.  Numbers are fixed point: height in        *)
(* centimetres (1.75 m = 175), weight in tenths of a kilogram              *)
(* (70.2 kg = 702), bmi in hundredths (22.92 = 2292).  The rounding of the *)
(* bmi is exact on every input where weight / height^2 is not half-way     *)
(* between two hundredths; the inputs of the model avoid the half-way      *)
(* cases, where the result depends on the binary representation.           *)
(***************************************************************************)
EXTENDS Integers, Sequences, FiniteSets, TLC

VARIABLES db, prev, req, resp, nops, probe

vars == <<db, prev, req, resp, nops, probe>>

\* bounds of the model
MaxOps == 2
MaxSet == 1
MaxWeight == 1300

---------------------------------------------------------------------------
\* JSON values

Null == [t |-> "null", v |-> 0]
Str(s) == [t |-> "str", v |-> s]
Num(n) == [t |-> "num", v |-> n]

IsStr(x) == x.t = "str"
IsNum(x) == x.t = "num"
IsNull(x) == x.t = "null"

Fields == {"name", "city", "age", "gender", "height", "weight"}

\* str.upper() / str.lower() on one character
Upper(c) ==
  CASE c = "m" -> "M" [] c = "a" -> "A" [] c = "l" -> "L" [] c = "e" -> "E"
    [] c = "f" -> "F" [] c = "o" -> "O" [] c = "t" -> "T" [] c = "h" -> "H"
    [] c = "r" -> "R" [] c = "s" -> "S" [] c = "x" -> "X"
    [] OTHER -> c

Lower(c) ==
  CASE c = "M" -> "m" [] c = "A" -> "a" [] c = "L" -> "l" [] c = "E" -> "e"
    [] c = "F" -> "f" [] c = "O" -> "o" [] c = "T" -> "t" [] c = "H" -> "h"
    [] c = "R" -> "r" [] c = "S" -> "s" [] c = "X" -> "x"
    [] OTHER -> c

\* str.capitalize(): first character upper case, the rest lower case
capitalize(s) ==
  [i \in 1..Len(s) |-> IF i = 1 THEN Upper(s[i]) ELSE Lower(s[i])]

\* the before-validator of gender, in Patient and in PatientUpdate
normalize_gender(x) == IF IsStr(x) THEN Str(capitalize(x.v)) ELSE x

Male == <<"M", "a", "l", "e">>
Female == <<"F", "e", "m", "a", "l", "e">>
Others == <<"O", "t", "h", "e", "r", "s">>
GenderLiteral == {Male, Female, Others}

---------------------------------------------------------------------------
\* derived fields of Patient

\* round(n / d, 0) to the nearest integer, halves to even
RoundDiv(n, d) ==
  LET q == n \div d
      r == n % d
  IN  IF 2 * r > d \/ (2 * r = d /\ q % 2 = 1) THEN q + 1 ELSE q

\* weight / height^2 lies half-way between two hundredths
IsTie(h, w) == 2 * ((w * 100000) % (h * h)) = h * h

\* Patient.bmi: round(weight / height ** 2, 2), in hundredths
bmi(h, w) == RoundDiv(w * 100000, h * h)

\* a verdict whose third branch starts where the second one ends
verdict_nogap(b) ==
  IF b < 1850 THEN "Underweight"
  ELSE IF 1850 <= b /\ b < 2490 THEN "Normal weight"
  ELSE IF 2490 <= b /\ b < 2990 THEN "Overweight"
  ELSE "Obesity"

\* Patient.verdict
verdict(b) ==
  IF b < 1850 THEN "Underweight"
  ELSE IF 1850 <= b /\ b < 2490 THEN "Normal weight"
  ELSE IF 2500 <= b /\ b < 2990 THEN "Overweight"
  ELSE "Obesity"

---------------------------------------------------------------------------
\* validation

\* field constraints of Patient (gender goes through normalize_gender first)
PatientFieldOK(f, x) ==
  CASE f = "name" -> IsStr(x)
    [] f = "city" -> IsStr(x)
    [] f = "age" -> IsNum(x) /\ x.v > 0 /\ x.v < 110
    [] f = "gender" -> IsStr(normalize_gender(x))
                       /\ normalize_gender(x).v \in GenderLiteral
    [] f = "height" -> IsNum(x) /\ x.v > 0
    [] f = "weight" -> IsNum(x) /\ x.v > 0

\* field constraints of PatientUpdate: every field Optional
PatientUpdateFieldOK(f, x) ==
  CASE f = "name" -> IsNull(x) \/ IsStr(x)
    [] f = "city" -> IsNull(x) \/ IsStr(x)
    [] f = "age" -> IsNull(x) \/ (IsNum(x) /\ x.v > 0)
    [] f = "gender" -> IsNull(x)
                       \/ (IsStr(normalize_gender(x))
                           /\ normalize_gender(x).v \in GenderLiteral)
    [] f = "height" -> IsNull(x) \/ (IsNum(x) /\ x.v > 0)
    [] f = "weight" -> IsNull(x) \/ (IsNum(x) /\ x.v > 0)

\* Patient(**d) succeeds: every field is required and valid; keys of d
\* other than the six fields (id, bmi, verdict) do not matter
PatientValid(d) ==
  /\ Fields \subseteq DOMAIN d
  /\ \A f \in Fields : PatientFieldOK(f, d[f])

\* the fields of the validated Patient
Patient(d) ==
  [f \in Fields |-> IF f = "gender" THEN normalize_gender(d[f]) ELSE d[f]]

\* Patient.model_dump(exclude=['id']): the six fields, bmi and verdict
model_dump(p) ==
  [name |-> p["name"], city |-> p["city"], age |-> p["age"],
   gender |-> p["gender"], height |-> p["height"], weight |-> p["weight"],
   bmi |-> bmi(p["height"].v, p["weight"].v),
   verdict |-> verdict(bmi(p["height"].v, p["weight"].v))]

\* PatientUpdate(**d) succeeds
PatientUpdateValid(d) ==
  \A f \in DOMAIN d : PatientUpdateFieldOK(f, d[f])

\* PatientUpdate.model_dump(exclude_unset=True): the fields that were set
PatientUpdate(d) ==
  [f \in DOMAIN d |-> IF f = "gender" THEN normalize_gender(d[f]) ELSE d[f]]

---------------------------------------------------------------------------
\* the collection: an insertion-ordered dict

Keys(data) == {data[i].id : i \in 1..Len(data)}

IndexOf(data, pid) == CHOOSE i \in 1..Len(data) : data[i].id = pid

Get(data, pid) == data[IndexOf(data, pid)].rec

\* data[pid] = rec: a new key goes last, an existing key keeps its place
Put(data, pid, rec) ==
  IF pid \in Keys(data)
  THEN [data EXCEPT ![IndexOf(data, pid)] = [id |-> pid, rec |-> rec]]
  ELSE Append(data, [id |-> pid, rec |-> rec])

\* del data[pid]
Del(data, pid) ==
  LET k == IndexOf(data, pid)
  IN  [i \in 1..(Len(data) - 1) |-> IF i < k THEN data[i] ELSE data[i + 1]]

\* sorted(xs, key=..., reverse=...): a stable sort; with reverse the list is
\* reversed, sorted stably and reversed again, as list.sort does
KeyOf(x, sort_by) == IF sort_by = "bmi" THEN x.bmi ELSE x[sort_by].v

Reverse(s) == [i \in 1..Len(s) |-> s[Len(s) + 1 - i]]

\* x goes after every element whose key is not greater than its own
Insert(s, x, sort_by) ==
  LET n == Cardinality({i \in 1..Len(s) :
                          KeyOf(s[i], sort_by) <= KeyOf(x, sort_by)})
  IN  SubSeq(s, 1, n) \o <<x>> \o SubSeq(s, n + 1, Len(s))

RECURSIVE StableSort(_, _)
StableSort(s, sort_by) ==
  IF s = <<>> THEN <<>>
  ELSE Insert(StableSort(SubSeq(s, 1, Len(s) - 1), sort_by), s[Len(s)], sort_by)

\* a reverse sort that reverses the ascending result
sorted_flipped(s, sort_by, reverse) ==
  IF reverse THEN Reverse(StableSort(s, sort_by))
  ELSE StableSort(s, sort_by)

sorted(s, sort_by, reverse) ==
  IF reverse THEN Reverse(StableSort(Reverse(s), sort_by))
  ELSE StableSort(s, sort_by)

---------------------------------------------------------------------------
\* requests

IDs == {"P001", "P002", "P003"}

Ann == <<"A", "n", "n">>
Bob == <<"B", "o", "b">>
Cy == <<"C", "y">>
John == <<"J", "o", "h", "n">>
Pune == <<"P", "u", "n", "e">>
Agra == <<"A", "g", "r", "a">>

\* the values a request may carry in each field, valid and invalid
FieldValues(f) ==
  CASE f = "name" -> {Str(<<>>), Str(Ann), Null}
    [] f = "city" -> {Str(<<>>), Str(Pune)}
    [] f = "age" -> {Num(0), Num(109), Num(110)}
    [] f = "gender" -> {Str(<<"m", "A", "L", "E">>), Str(<<"x", "x">>)}
    [] f = "height" -> {Num(0), Num(150)}
    [] f = "weight" -> {Num(0), Num(450)}

AllValues == UNION {FieldValues(f) : f \in Fields}

\* request bodies that set the fields S
BodiesOver(S) == {b \in [S -> AllValues] : \A f \in S : b[f] \in FieldValues(f)}

\* request bodies that set at most n fields
Bodies(n) ==
  UNION {BodiesOver(S) : S \in {T \in SUBSET Fields : Cardinality(T) <= n}}

UpdateBodies == Bodies(MaxSet)

RecA ==
  [name |-> Str(Ann), city |-> Str(Pune), age |-> Num(30),
   gender |-> Str(Female), height |-> Num(200), weight |-> Num(800)]
RecB ==
  [name |-> Str(Bob), city |-> Str(Agra), age |-> Num(45),
   gender |-> Str(Male), height |-> Num(150), weight |-> Num(450)]
RecC ==
  [name |-> Str(Cy), city |-> Str(Pune), age |-> Num(61),
   gender |-> Str(Others), height |-> Num(200), weight |-> Num(720)]
RecJohn ==
  [name |-> Str(John), city |-> Str(Agra), age |-> Num(30),
   gender |-> Str(<<"m", "a", "l", "e">>), height |-> Num(175),
   weight |-> Num(702)]

Override(d, u) ==
  [k \in DOMAIN d \cup DOMAIN u |-> IF k \in DOMAIN u THEN u[k] ELSE d[k]]

Without(d, f) == [k \in DOMAIN d \ {f} |-> d[k]]

\* bodies of create: a full record, one with one field replaced, and one
\* with one field missing
CreateBodies ==
  {Override(RecJohn, u) : u \in Bodies(1)}
    \cup {Without(RecJohn, f) : f \in Fields}

SortKeys == {"height", "weight", "bmi", "age"}
SortOrders == {"asc", "desc", "up"}
\* query strings of /sort: sort_by is required, order is optional
SortQueries ==
  {[sort_by |-> k] : k \in SortKeys}
    \cup {[sort_by |-> k, order |-> o] : k \in SortKeys, o \in SortOrders}

\* patients.json at start: empty, or three consistent records of which the
\* first two have the same bmi and the first and last the same height
InitialCollections ==
  {<<>>,
   <<[id |-> "P001", rec |-> model_dump(Patient(RecA))],
     [id |-> "P002", rec |-> model_dump(Patient(RecB))],
     [id |-> "P003", rec |-> model_dump(Patient(RecC))]>>}

NoRequest == [op |-> "none", id |-> "", body |-> <<>>]
NoResponse == [status |-> 0, detail |-> "", body |-> <<>>]
NoProbe == [stage |-> "off", height |-> 0, weight |-> 0, bmi |-> 0, verdict |-> ""]

Response(status, detail) == [status |-> status, detail |-> detail, body |-> <<>>]

---------------------------------------------------------------------------
\* handlers; load_data() reads db and save_data(data) writes db'

Served(op, pid, body) ==
  /\ req = NoRequest
  /\ nops < MaxOps
  /\ nops' = nops + 1
  /\ prev' = db
  /\ req' = [op |-> op, id |-> pid, body |-> body]
  /\ UNCHANGED probe

\* a create that writes without looking for the id
create_patient_overwrite(pid, body) ==
  /\ Served("create", pid, body)
  /\ IF ~PatientValid(body)
     THEN /\ resp' = Response(422, "validation error")
          /\ db' = db
     ELSE /\ db' = Put(db, pid, model_dump(Patient(body)))
          /\ resp' = Response(201, "Patient record created successfully")

\* POST /create; the body is validated as a Patient before the handler runs
create_patient(pid, body) ==
  /\ Served("create", pid, body)
  /\ IF ~PatientValid(body)
     THEN /\ resp' = Response(422, "validation error")
          /\ db' = db
     ELSE IF pid \in Keys(db)
     THEN /\ resp' = Response(400, "Patient ID already exists")
          /\ db' = db
     ELSE /\ db' = Put(db, pid, model_dump(Patient(body)))
          /\ resp' = Response(201, "Patient record created successfully")

\* a merge in which the stored values win over the supplied ones
Merged_reversed(existing, body) == Override(PatientUpdate(body), existing)

\* existing_patient_data after the loop over updated_patient_data.items()
Merged(existing, body) == Override(existing, PatientUpdate(body))

\* an update that stores the merged dict as it is
Updated_stale(merged) == merged

\* the record built from the merged dict: Patient(**d).model_dump(exclude=['id'])
Updated(merged) == model_dump(Patient(merged))

\* an update that does not look for the id and fails on data[patient_id]
update_patient_nocheck(pid, body) ==
  /\ Served("update", pid, body)
  /\ IF ~PatientUpdateValid(body)
     THEN /\ resp' = Response(422, "validation error")
          /\ db' = db
     ELSE IF pid \notin Keys(db) \/ ~PatientValid(Merged(Get(db, pid), body))
     THEN /\ resp' = Response(500, "Internal Server Error")
          /\ db' = db
     ELSE /\ db' = Put(db, pid, Updated(Merged(Get(db, pid), body)))
          /\ resp' = Response(200, "Patient record updated successfully")

\* PUT /edit/{patient_id}; the body is validated as a PatientUpdate before
\* the handler runs, and a ValidationError raised inside it is a 500
update_patient(pid, body) ==
  /\ Served("update", pid, body)
  /\ IF ~PatientUpdateValid(body)
     THEN /\ resp' = Response(422, "validation error")
          /\ db' = db
     ELSE IF pid \notin Keys(db)
     THEN /\ resp' = Response(404, "Patient not found")
          /\ db' = db
     ELSE IF ~PatientValid(Merged(Get(db, pid), body))
     THEN /\ resp' = Response(500, "Internal Server Error")
          /\ db' = db
     ELSE /\ db' = Put(db, pid, Updated(Merged(Get(db, pid), body)))
          /\ resp' = Response(200, "Patient record updated successfully")

\* DELETE /delete/{patient_id}
delete_patient(pid) ==
  /\ Served("delete", pid, <<>>)
  /\ IF pid \notin Keys(db)
     THEN /\ resp' = Response(404, "Patient not found")
          /\ db' = db
     ELSE /\ db' = Del(db, pid)
          /\ resp' = Response(200, "Patient record deleted successfully")

\* the order parameter, 'asc' when the query does not give it
OrderOf(q) == IF "order" \in DOMAIN q THEN q["order"] ELSE "asc"

\* a sort that takes every order other than desc for asc
sort_patients_anyorder(q) ==
  /\ Served("sort", "", q)
  /\ db' = db
  /\ IF q["sort_by"] \notin {"height", "weight", "bmi"}
     THEN resp' = Response(400, "Invalid field select from ['height', 'weight', 'bmi']")
     ELSE IF FALSE
     THEN resp' = Response(400, "Invalid order select between asc and desc")
     ELSE IF \E i \in 1..Len(db) : ~PatientValid(db[i].rec)
     THEN resp' = Response(500, "Internal Server Error")
     ELSE resp' =
            [status |-> 200, detail |-> "",
             body |-> sorted([i \in 1..Len(db) |-> model_dump(Patient(db[i].rec))],
                             q["sort_by"], OrderOf(q) = "desc")]

\* GET /sort
sort_patients(q) ==
  /\ Served("sort", "", q)
  /\ db' = db
  /\ IF q["sort_by"] \notin {"height", "weight", "bmi"}
     THEN resp' = Response(400, "Invalid field select from ['height', 'weight', 'bmi']")
     ELSE IF OrderOf(q) \notin {"asc", "desc"}
     THEN resp' = Response(400, "Invalid order select between asc and desc")
     ELSE IF \E i \in 1..Len(db) : ~PatientValid(db[i].rec)
     THEN resp' = Response(500, "Internal Server Error")
     ELSE resp' =
            [status |-> 200, detail |-> "",
             body |-> sorted([i \in 1..Len(db) |-> model_dump(Patient(db[i].rec))],
                             q["sort_by"], OrderOf(q) = "desc")]

---------------------------------------------------------------------------
\* the service

Init ==
  /\ db \in InitialCollections
  /\ prev = db
  /\ req = NoRequest
  /\ resp = NoResponse
  /\ nops = 0
  /\ probe = NoProbe

Create == \E pid \in IDs, body \in CreateBodies : create_patient(pid, body)
Update == \E pid \in IDs, body \in UpdateBodies : update_patient(pid, body)
Delete == \E pid \in IDs : delete_patient(pid)
Sort == \E q \in SortQueries : sort_patients(q)

\* the response is sent and the locals of the handler are gone; requests
\* are served one at a time
Respond ==
  /\ req # NoRequest
  /\ req' = NoRequest
  /\ resp' = NoResponse
  /\ prev' = db
  /\ UNCHANGED <<db, nops, probe>>

Next == Create \/ Update \/ Delete \/ Sort \/ Respond

Spec == Init /\ [][Next]_vars

---------------------------------------------------------------------------
\* the derived fields on their own: bmi from height and weight, then
\* verdict from bmi

ProbeHeights == {100, 175, 200}

ProbeInputs ==
  {hw \in ProbeHeights \X (1..MaxWeight) : ~IsTie(hw[1], hw[2])}

InitDerive ==
  /\ db = <<>>
  /\ prev = <<>>
  /\ req = NoRequest
  /\ resp = NoResponse
  /\ nops = 0
  /\ \E hw \in ProbeInputs :
       probe = [stage |-> "input", height |-> hw[1], weight |-> hw[2],
                bmi |-> 0, verdict |-> ""]

DeriveBmi ==
  /\ probe.stage = "input"
  /\ probe' = [probe EXCEPT !.stage = "bmi",
                            !.bmi = bmi(probe.height, probe.weight)]
  /\ UNCHANGED <<db, prev, req, resp, nops>>

DeriveVerdict ==
  /\ probe.stage = "bmi"
  /\ probe' = [probe EXCEPT !.stage = "verdict", !.verdict = verdict(probe.bmi)]
  /\ UNCHANGED <<db, prev, req, resp, nops>>

NextDerive == DeriveBmi \/ DeriveVerdict

SpecDerive == InitDerive /\ [][NextDerive]_vars

---------------------------------------------------------------------------
\* properties

Records(data) == {data[i].rec : i \in 1..Len(data)}

LastIs(op) == req.op = op

\* the value of field f that an update with this body leaves in the record
AfterMerge(existing, body, f) ==
  IF f \in DOMAIN body THEN body[f] ELSE existing[f]

\* the same, the gender in canonical form
AfterMergeCanonical(existing, body, f) ==
  IF f = "gender" /\ IsStr(AfterMerge(existing, body, f))
  THEN Str(capitalize(AfterMerge(existing, body, f).v))
  ELSE AfterMerge(existing, body, f)

Accepted == {"height", "weight", "bmi"}

\* C1: every persisted record has the bmi derived from its height and
\* weight and the verdict derived from that bmi, after any sequence of
\* requests; an update that supplies only name leaves bmi and verdict alone
C1_DerivedConsistent ==
  /\ \A r \in Records(db) :
       /\ r.bmi = RoundDiv(r.weight.v * 100000, r.height.v * r.height.v)
       /\ r.verdict = verdict(r.bmi)
  /\ (LastIs("update") /\ resp.status = 200 /\ DOMAIN req.body = {"name"})
       => /\ Get(db, req.id).bmi = Get(prev, req.id).bmi
          /\ Get(db, req.id).verdict = Get(prev, req.id).verdict

\* a successful update supplied a height and the stored bmi and verdict
\* both changed
C1_Witness ==
  /\ LastIs("update") /\ resp.status = 200
  /\ "height" \in DOMAIN req.body
  /\ Get(db, req.id).bmi # Get(prev, req.id).bmi
  /\ Get(db, req.id).verdict # Get(prev, req.id).verdict

\* the full-record constraints as the specification states them
FullRecordOK(f, x) ==
  CASE f = "name" -> IsStr(x) /\ Len(x.v) > 0
    [] f = "city" -> IsStr(x) /\ Len(x.v) > 0
    [] f = "age" -> IsNum(x) /\ 0 < x.v /\ x.v < 110
    [] f = "gender" -> IsStr(x) /\ x.v \in {Male, Female, Others}
    [] f = "height" -> IsNum(x) /\ x.v > 0
    [] f = "weight" -> IsNum(x) /\ x.v > 0

\* C2: every persisted record satisfies the full-record constraints: name
\* and city non-empty strings, 0 < age < 110, gender one of Male, Female,
\* Others in canonical form, height > 0 and weight > 0
C2_FullRecordConstraints ==
  \A r \in Records(db) : \A f \in Fields : FullRecordOK(f, r[f])

\* C3: a create whose id is already a key fails with the duplicate-id error
\* and leaves the collection as it was; a create whose id is new adds that
\* key alone, last, mapped to the record without an id field
C3_CreateDuplicateOrAdd ==
  LastIs("create") =>
    /\ req.id \in Keys(prev) =>
         /\ db = prev
         /\ PatientValid(req.body) =>
              /\ resp.status = 400
              /\ resp.detail = "Patient ID already exists"
    /\ (req.id \notin Keys(prev) /\ PatientValid(req.body)) =>
         /\ resp.status = 201
         /\ Len(db) = Len(prev) + 1
         /\ SubSeq(db, 1, Len(prev)) = prev
         /\ db[Len(db)].id = req.id
         /\ "id" \notin DOMAIN db[Len(db)].rec
         /\ \A f \in Fields \ {"gender"} : db[Len(db)].rec[f] = req.body[f]
         /\ db[Len(db)].rec.gender = Str(capitalize(req.body["gender"].v))

\* a create of an existing id, with a valid record that differs from the
\* stored one, was refused
C3_Witness ==
  /\ LastIs("create") /\ resp.status = 400
  /\ req.id \in Keys(prev)
  /\ PatientValid(req.body)
  /\ Get(prev, req.id).name # req.body["name"]
  /\ Get(db, req.id) = Get(prev, req.id)

\* C4: an update or a delete of an id that is not a key fails with the
\* not-found error and leaves the collection as it was, whatever the
\* PatientUpdate sets
C4_UnknownIdNotFound ==
  ((LastIs("update") \/ LastIs("delete")) /\ req.id \notin Keys(prev)) =>
    /\ db = prev
    /\ (LastIs("delete") \/ PatientUpdateValid(req.body)) =>
         /\ resp.status = 404
         /\ resp.detail = "Patient not found"

\* an update that sets a field was refused for an unknown id
C4_Witness ==
  /\ LastIs("update") /\ resp.status = 404
  /\ req.id \notin Keys(prev)
  /\ DOMAIN req.body # {}
  /\ db = prev

\* C5: an update of an existing id whose merged record violates a
\* full-record constraint fails and leaves the collection as it was
C5_InvalidUpdateNotApplied ==
  (/\ LastIs("update")
   /\ req.id \in Keys(prev)
   /\ \E f \in Fields :
        ~FullRecordOK(f, AfterMergeCanonical(Get(prev, req.id), req.body, f)))
    => /\ resp.status >= 400
       /\ db = prev

\* the same for the constraints that Patient enforces: the merged record
\* is rejected by Patient, the update fails and nothing is written
C5_RejectedUpdateNotApplied ==
  (/\ LastIs("update")
   /\ req.id \in Keys(prev)
   /\ \E f \in Fields :
        ~PatientFieldOK(f, AfterMerge(Get(prev, req.id), req.body, f)))
    => /\ resp.status >= 400
       /\ db = prev

\* C6: after a successful update every field of the target record has the
\* value the PatientUpdate carries for it if it carries one and its former
\* value otherwise; an update that sets nothing leaves the record as it was
C6_MergeFrame ==
  (LastIs("update") /\ resp.status = 200) =>
    /\ \A f \in Fields \ {"gender"} :
         Get(db, req.id)[f] = AfterMerge(Get(prev, req.id), req.body, f)
    /\ Get(db, req.id).gender =
         IF "gender" \in DOMAIN req.body
         THEN Str(capitalize(req.body["gender"].v))
         ELSE Get(prev, req.id).gender
    /\ DOMAIN req.body = {} => Get(db, req.id) = Get(prev, req.id)

\* a successful update set the weight to a new value and kept the city
C6_Witness ==
  /\ LastIs("update") /\ resp.status = 200
  /\ DOMAIN req.body = {"weight"}
  /\ Get(db, req.id).weight # Get(prev, req.id).weight
  /\ Get(db, req.id).city = Get(prev, req.id).city

\* C7: the verdict is Underweight below 18.5, Normal weight from 18.5 to
\* below 24.9, Overweight from 25 to below 29.9 and Obesity exactly when
\* the bmi is in [24.9, 25) or at least 29.9
C7_VerdictTable ==
  probe.stage = "verdict" =>
    /\ probe.verdict \in {"Underweight", "Normal weight", "Overweight", "Obesity"}
    /\ probe.verdict = "Underweight" <=> probe.bmi < 1850
    /\ probe.verdict = "Normal weight" <=> (1850 <= probe.bmi /\ probe.bmi < 2490)
    /\ probe.verdict = "Overweight" <=> (2500 <= probe.bmi /\ probe.bmi < 2990)
    /\ probe.verdict = "Obesity" <=>
         ((2490 <= probe.bmi /\ probe.bmi < 2500) \/ probe.bmi >= 2990)

\* a bmi strictly inside the gap got the verdict Obesity
C7_Witness ==
  /\ probe.stage = "verdict"
  /\ 2490 < probe.bmi /\ probe.bmi < 2500
  /\ probe.verdict = "Obesity"

Perms(n) == {p \in [1..n -> 1..n] : \A i, j \in 1..n : p[i] = p[j] => i = j}

Desc == "order" \in DOMAIN req.body /\ req.body["order"] = "desc"

\* C8: a sort returns every record of the collection once, in the order of
\* the key (non-decreasing for asc, non-increasing for desc), records with
\* equal keys in the order of the collection in both directions
C8_SortStable ==
  (LastIs("sort") /\ resp.status = 200) =>
    /\ Len(resp.body) = Len(db)
    /\ \E p \in Perms(Len(db)) :
         /\ \A k \in 1..Len(db) : resp.body[k] = db[p[k]].rec
         /\ \A k, l \in 1..Len(db) :
              k < l =>
                LET a == KeyOf(resp.body[k], req.body["sort_by"])
                    b == KeyOf(resp.body[l], req.body["sort_by"])
                IN  /\ IF Desc THEN a >= b ELSE a <= b
                    /\ a = b => p[k] < p[l]

\* a descending sort of three records, two of them with the same key and
\* different contents
C8_Witness ==
  /\ LastIs("sort") /\ resp.status = 200 /\ Desc
  /\ Len(resp.body) = 3
  /\ \E k \in 1..2 :
       /\ KeyOf(resp.body[k], req.body["sort_by"])
            = KeyOf(resp.body[k + 1], req.body["sort_by"])
       /\ resp.body[k] # resp.body[k + 1]

\* C9: update validation accepts a supplied value exactly when Patient
\* accepts that value for the same field; stated for the values other than
\* null, so that a PatientUpdate with age >= 110 is rejected
C9_UpdateSameRules ==
  (/\ LastIs("update")
   /\ Cardinality(DOMAIN req.body) = 1
   /\ \A f \in DOMAIN req.body : ~IsNull(req.body[f])) =>
    (resp.status # 422
       <=> \A f \in DOMAIN req.body : PatientFieldOK(f, req.body[f]))

\* C10: a sort with a key other than height, weight, bmi fails with the
\* invalid-field error; with an accepted key and an order other than asc or
\* desc it fails with the invalid-order error; with an accepted key and an
\* accepted or omitted order it succeeds, ascending when the order is
\* omitted; the collection is never changed
C10_SortParameters ==
  LastIs("sort") =>
    /\ db = prev
    /\ req.body["sort_by"] \notin Accepted =>
         /\ resp.status = 400
         /\ resp.detail = "Invalid field select from ['height', 'weight', 'bmi']"
    /\ (/\ req.body["sort_by"] \in Accepted
        /\ "order" \in DOMAIN req.body
        /\ req.body["order"] \notin {"asc", "desc"}) =>
         /\ resp.status = 400
         /\ resp.detail = "Invalid order select between asc and desc"
    /\ (/\ req.body["sort_by"] \in Accepted
        /\ ("order" \in DOMAIN req.body => req.body["order"] \in {"asc", "desc"})) =>
         /\ resp.status = 200
         /\ "order" \notin DOMAIN req.body =>
              \A k \in 1..(Len(resp.body) - 1) :
                KeyOf(resp.body[k], req.body["sort_by"])
                  <= KeyOf(resp.body[k + 1], req.body["sort_by"])

\* a sort by an accepted key with the order "up" was refused
C10_Witness ==
  /\ LastIs("sort") /\ resp.status = 400
  /\ req.body["sort_by"] \in Accepted
  /\ "order" \in DOMAIN req.body /\ req.body["order"] = "up"
  /\ resp.detail = "Invalid order select between asc and desc"
  /\ db = prev

====
